---- MODULE Spec2Model ----
(***************************************************************************)
(* A model of xarray_dataclasses: the field classifier and the class       *)
(* checker of core.py, the array assembler and the shorthand class methods *)
(* of dataarray.py, and the module-level constructors of methods.py.       *)
(*                                                                         *)
(* Each component has a specification of its own (SpecKind, SpecCheck,     *)
(* SpecCast, SpecAsm, SpecMethods, SpecShort); the variables of the other  *)
(* components stay at their idle values.                                   *)
(***************************************************************************)
EXTENDS Integers, Sequences, FiniteSets, TLC

VARIABLES
    annotations,   \* set_fields: cls.__annotations__, a sequence of [name, hint]
    kinds,         \* set_fields: the field kinds installed so far, in order
    sf_pc,         \* set_fields: "run", "done" or "TypeError"
    cls,           \* check_fields: cls.__dataclass_fields__, a sequence of fields
    checked,       \* check_fields: "pending", "ok" or the exception raised
    inst0,         \* cast_fields: the instance's fields as they were at the call
    inst,          \* cast_fields: the instance's fields
    cast_out,      \* cast_fields: "pending", "returned" or "TypeError"
    dc,            \* asdataarray: the dataclass argument, [fields, factory]
    arg_factory,   \* asdataarray: the dataarray_factory argument
    asm_pc,        \* asdataarray: the position in the function body
    asm_i,         \* asdataarray: the number of entries the current loop has done
    dataarray,     \* asdataarray: the local dataarray, <<>> before it is made
    events,        \* asdataarray: the calls made on the array library, in order
    returned,      \* asdataarray: what the caller received, <<>> for nothing
    m_call,        \* methods.py: the call made, [fn, shape, dtype, order, ...]
    m_result,      \* methods.py: <<>> pending, else the outcome [raised, value]
    k_call,        \* AsDataArray class methods: the call made
    k_result       \* AsDataArray class methods: <<>> pending, else the outcome

kindVars == <<annotations, kinds, sf_pc>>
checkVars == <<cls, checked>>
castVars == <<inst0, inst, cast_out>>
asmVars == <<dc, arg_factory, asm_pc, asm_i, dataarray, events, returned>>
methodVars == <<m_call, m_result>>
shortVars == <<k_call, k_result>>
vars == <<kindVars, checkVars, castVars, asmVars, methodVars, shortVars>>

\* the variables of the other components
notKind == <<checkVars, castVars, asmVars, methodVars, shortVars>>
notCheck == <<kindVars, castVars, asmVars, methodVars, shortVars>>
notCast == <<kindVars, checkVars, asmVars, methodVars, shortVars>>
notAsm == <<kindVars, checkVars, castVars, methodVars, shortVars>>
notMethods == <<kindVars, checkVars, castVars, asmVars, shortVars>>
notShort == <<kindVars, checkVars, castVars, asmVars, methodVars>>

(***************************************************************************)
(* Bounds of the model.                                                    *)
(***************************************************************************)
MaxAnnotations == 2
MaxFields == 3
MaxCastFields == 3
MaxRaw == 1
MaxAsmFields == 4
MaxValue == 1

(***************************************************************************)
(* core.py: constants and FieldKind.                                       *)
(***************************************************************************)
DATA_FIELD == "data"
NAME_FIELD == "name"

FieldKind == {"ATTR", "COORD", "DATA", "NAME"}

(***************************************************************************)
(* Type hints.  A hint is [wrapped, base]: wrapped says that the hint is   *)
(* Annotated[base, ...]; base is one of                                    *)
(*   "DataArray"        the array marker class itself                      *)
(*   "DataArray[x]"     a class made by the marker (a subclass of it)      *)
(*   "int"              a class that is no subclass of the marker          *)
(*   "List[int]"        a parameterized generic (get_origin is not None)   *)
(*   "'int'"            a string forward reference: not a class, no origin *)
(*   "TypeVar"          a typing object: not a class, no origin            *)
(***************************************************************************)
BaseHints == {"DataArray", "DataArray[x]", "int", "List[int]", "'int'", "TypeVar"}
Hints == [wrapped : BOOLEAN, base : BaseHints]
FieldNames == {"data", "name", "x", "mask"}

\* typing_extensions.get_origin
get_origin(hint) ==
    IF hint.wrapped THEN "Annotated"
    ELSE IF hint.base = "List[int]" THEN "list"
    ELSE "None"

\* typing_extensions.get_args(hint)[0] of an Annotated hint
get_args0(hint) == [wrapped |-> FALSE, base |-> hint.base]

\* whether the built-in issubclass accepts its first argument
IsClass(hint) == hint.base \in {"DataArray", "DataArray[x]", "int"}

\* issubclass(hint, DataArray), which raises TypeError when hint is no class
issubclass_raises(hint) == ~IsClass(hint)
issubclass_DataArray(hint) == hint.base \in {"DataArray", "DataArray[x]"}

\* core.py infer_field_kind: a kind, or "TypeError" when issubclass raises
infer_field_kind(name, hint0) ==
    LET hint == IF get_origin(hint0) = "Annotated" THEN get_args0(hint0) ELSE hint0
    IN  IF name = DATA_FIELD THEN "DATA"
        ELSE IF name = NAME_FIELD THEN "NAME"
        ELSE IF get_origin(hint) # "None" THEN "ATTR"
        ELSE IF issubclass_raises(hint) THEN "TypeError"
        ELSE IF ~issubclass_DataArray(hint) THEN "ATTR"
        ELSE "COORD"

(***************************************************************************)
(* Sequences without repeated names (the keys of a dict are distinct).     *)
(***************************************************************************)
SeqsUpTo(S, n) == UNION {[1..k -> S] : k \in 1..n}
DistinctNames(s) == \A i, j \in 1..Len(s) : i # j => s[i].name # s[j].name

\* the sequences of at most n distinct names
NameSeqs(S, n) == {s \in SeqsUpTo(S, n) : \A i, j \in 1..Len(s) : i # j => s[i] # s[j]}

\* the sequences of fields of F that carry the names, in their order
RECURSIVE FieldsNamed(_, _)
FieldsNamed(names, F) ==
    IF names = <<>> THEN {<<>>}
    ELSE {<<f>> \o rest : f \in {g \in F : g.name = Head(names)},
                          rest \in FieldsNamed(Tail(names), F)}

IdleKind == annotations = <<>> /\ kinds = <<>> /\ sf_pc = "idle"
IdleCheck == cls = <<>> /\ checked = "idle"
IdleCast == inst0 = <<>> /\ inst = <<>> /\ cast_out = "idle"
IdleAsm ==
    /\ dc = <<>> /\ arg_factory = "idle" /\ asm_pc = "idle" /\ asm_i = 0
    /\ dataarray = <<>> /\ events = <<>> /\ returned = <<>>
IdleMethods == m_call = <<>> /\ m_result = <<>>
IdleShort == k_call = <<>> /\ k_result = <<>>

(***************************************************************************)
(* core.py set_fields: one iteration of the loop over cls.__annotations__. *)
(***************************************************************************)
InitKind ==
    /\ annotations \in {s \in SeqsUpTo([name : FieldNames, hint : Hints], MaxAnnotations) :
                            DistinctNames(s)}
    /\ kinds = <<>>
    /\ sf_pc = "run"
    /\ IdleCheck /\ IdleCast /\ IdleAsm /\ IdleMethods /\ IdleShort

SetField ==
    /\ sf_pc = "run"
    /\ Len(kinds) < Len(annotations)
    /\ LET a == annotations[Len(kinds) + 1]
           k == infer_field_kind(a.name, a.hint)
       IN  IF k = "TypeError"
           THEN sf_pc' = "TypeError" /\ UNCHANGED kinds
           ELSE kinds' = Append(kinds, k) /\ UNCHANGED sf_pc
    /\ UNCHANGED <<annotations, notKind>>

SetFieldsReturn ==
    /\ sf_pc = "run"
    /\ Len(kinds) = Len(annotations)
    /\ sf_pc' = "done"
    /\ UNCHANGED <<annotations, kinds, notKind>>

NextKind == SetField \/ SetFieldsReturn

SpecKind == InitKind /\ [][NextKind]_vars

(***************************************************************************)
(* C2: for every field name and annotation, infer_field_kind unwraps an    *)
(* Annotated qualifier and returns one role by the first matching rule:    *)
(* DATA for the name "data", else NAME for the name "name", else ATTR for  *)
(* a parameterized generic, else ATTR for anything that is no subclass of  *)
(* DataArray, else COORD.  Stated over a finished run of set_fields: every *)
(* annotation got a kind, and the kind is the one the rules give.          *)
(***************************************************************************)
RuleKind(name, hint) ==
    CASE name = "data" -> "DATA"
      [] name # "data" /\ name = "name" -> "NAME"
      [] name \notin {"data", "name"} /\ hint.base = "List[int]" -> "ATTR"
      [] name \notin {"data", "name"} /\ hint.base # "List[int]"
            /\ hint.base \notin {"DataArray", "DataArray[x]"} -> "ATTR"
      [] OTHER -> "COORD"

C2_Claim ==
    sf_pc # "run" =>
        /\ Len(kinds) = Len(annotations)
        /\ \A i \in 1..Len(annotations) :
              kinds[i] = RuleKind(annotations[i].name, annotations[i].hint)

(***************************************************************************)
(* C3: infer_field_kind never raises, and an annotation that is not a      *)
(* class (a string forward reference, a typing object without an origin)   *)
(* yields ATTR for a field that is named neither "data" nor "name".        *)
(***************************************************************************)
C3_Claim ==
    /\ sf_pc # "TypeError"
    /\ \A i \in 1..Len(annotations) :
          (/\ annotations[i].name \notin {"data", "name"}
           /\ annotations[i].hint.base \in {"'int'", "TypeVar"}
           /\ (i <= Len(kinds) \/ sf_pc # "run"))
          => (i <= Len(kinds) /\ kinds[i] = "ATTR")

(***************************************************************************)
(* core.py check_fields.  A field of cls.__dataclass_fields__ is           *)
(* [name, kind, dims]: kind is field.metadata["field_kind"], or "missing"  *)
(* when the metadata has no such key; dims is field.type.dims, which the   *)
(* code reads of the data field and of COORD fields only.                  *)
(***************************************************************************)
DimSeqs == {<<>>, <<"x">>, <<"x", "y">>, <<"y", "x">>, <<"z">>, <<"x", "z">>,
            <<"x", "y", "z">>}

ClassFields ==
    [name : FieldNames, kind : {"ATTR", "NAME", "missing"}, dims : {<<>>}]
        \cup [name : FieldNames, kind : {"DATA", "COORD"}, dims : DimSeqs]

\* set(dims)
set(dims) == {dims[i] : i \in 1..Len(dims)}

\* fields[DATA_FIELD], or <<>> when there is no such key
FieldNamed(fields, name) ==
    IF \E i \in 1..Len(fields) : fields[i].name = name
    THEN <<fields[CHOOSE i \in 1..Len(fields) : fields[i].name = name]>>
    ELSE <<>>

\* line 93: set(field.type.dims) > set(data_field.type.dims), a proper superset
CoordDimsRejected(field, data_field) ==
    /\ set(data_field.dims) \subseteq set(field.dims)
    /\ set(data_field.dims) # set(field.dims)

check_fields(fields) ==
    IF \E i \in 1..Len(fields) : fields[i].kind = "missing"
    THEN "KeyError: All fields must have field kinds."
    ELSE IF FieldNamed(fields, DATA_FIELD) = <<>>
    THEN "KeyError: Class must have data field."
    ELSE LET data_field == FieldNamed(fields, DATA_FIELD)[1]
         IN  IF data_field.kind # "DATA"
             THEN "ValueError: Data field must have data kind."
             ELSE IF \E i \in 1..Len(fields) :
                        /\ fields[i].kind = "COORD"
                        /\ CoordDimsRejected(fields[i], data_field)
             THEN "ValueError: Coord dims must be subset of data dims."
             ELSE "ok"

InitCheck ==
    /\ \E names \in NameSeqs(FieldNames, MaxFields) : cls \in FieldsNamed(names, ClassFields)
    /\ checked = "pending"
    /\ IdleKind /\ IdleCast /\ IdleAsm /\ IdleMethods /\ IdleShort

CheckFields ==
    /\ checked = "pending"
    /\ checked' = check_fields(cls)
    /\ UNCHANGED <<cls, notCheck>>

NextCheck == CheckFields

SpecCheck == InitCheck /\ [][NextCheck]_vars

(***************************************************************************)
(* C1: check_fields raises for every class in which some COORD field has a *)
(* dimension that is not among the data field's dimensions, and accepts    *)
(* every class (with a data field of kind DATA and a kind on every field)  *)
(* in which each COORD field's dimension set is a subset of the data       *)
(* field's, whatever the order.                                            *)
(***************************************************************************)
WellKinded ==
    /\ \A i \in 1..Len(cls) : cls[i].kind # "missing"
    /\ FieldNamed(cls, "data") # <<>>
    /\ FieldNamed(cls, "data")[1].kind = "DATA"

CoordOutside(i) ==
    /\ cls[i].kind = "COORD"
    /\ \E d \in set(cls[i].dims) : d \notin set(FieldNamed(cls, "data")[1].dims)

C1_Claim ==
    (checked # "pending" /\ WellKinded) =>
        IF \E i \in 1..Len(cls) : CoordOutside(i)
        THEN checked # "ok"
        ELSE checked = "ok"

(***************************************************************************)
(* C4: every class that check_fields accepts has exactly one field of kind *)
(* DATA: no DATA field is rejected, and so is more than one.               *)
(***************************************************************************)
NumData == Cardinality({i \in 1..Len(cls) : cls[i].kind = "DATA"})

C4_Claim == checked = "ok" => NumData = 1

(***************************************************************************)
(* core.py cast_fields.  A field of an instance is [name, kind, type,      *)
(* value]: kind is the field's metadata kind, type is field.type (the      *)
(* annotation) and value is getattr(inst, name).  A value is [type, raw]:  *)
(* the Python type of the object and its content.                          *)
(***************************************************************************)
Values == [type : {"list", "str", "NoneType"}, raw : 1..MaxRaw]

InstFields ==
    [name : {"data"}, kind : {"DATA"}, type : {"DataArray[x]"}, value : Values]
        \cup [name : {"name"}, kind : {"NAME"}, type : {"str", "Optional[str]"},
              value : Values]
        \cup [name : {"x", "mask"}, kind : {"COORD"}, type : {"DataArray[x]"},
              value : Values]
        \cup [name : {"x", "mask"}, kind : {"ATTR"}, type : {"str", "List[int]"},
              value : Values]

\* field.type(value) raises TypeError when the annotation cannot be called
\* (typing.Optional[str] and typing.List[int] cannot be instantiated)
CastRaises(type, value) == type \in {"Optional[str]", "List[int]"}

\* field.type(value): an object of the field's type with the value's content
Cast(type, value) == [type |-> type, raw |-> value.raw]

\* a variant of SkipsCast: no field is skipped
SkipsCastNothing(kind) == FALSE

\* lines 59-60: the fields the loop skips
SkipsCast(kind) == kind = "ATTR"

\* lines 58-65: the loop from field i on; [fields, out]
RECURSIVE CastFrom(_, _)
CastFrom(fields, i) ==
    IF i > Len(fields) THEN [fields |-> fields, out |-> "returned"]
    ELSE IF SkipsCast(fields[i].kind) THEN CastFrom(fields, i + 1)
    ELSE IF CastRaises(fields[i].type, fields[i].value)
    THEN [fields |-> fields, out |-> "TypeError"]
    ELSE CastFrom([fields EXCEPT ![i].value = Cast(fields[i].type, fields[i].value)],
                  i + 1)

cast_fields(fields) == CastFrom(fields, 1)

InitCast ==
    /\ \E names \in NameSeqs(FieldNames, MaxCastFields) :
          inst0 \in FieldsNamed(names, InstFields)
    /\ inst = inst0
    /\ cast_out = "pending"
    /\ IdleKind /\ IdleCheck /\ IdleAsm /\ IdleMethods /\ IdleShort

CastFields ==
    /\ cast_out = "pending"
    /\ inst' = cast_fields(inst).fields
    /\ cast_out' = cast_fields(inst).out
    /\ UNCHANGED <<inst0, notCast>>

NextCast == CastFields

SpecCast == InitCast /\ [][NextCast]_vars

(***************************************************************************)
(* C10 as stated: cast_fields returns the same instance, replaces each     *)
(* DATA and COORD field by its field type applied to its value, and leaves *)
(* every ATTR field and the NAME field with the value it had.              *)
(***************************************************************************)
SameInstance ==
    /\ Len(inst) = Len(inst0)
    /\ \A i \in 1..Len(inst0) :
          /\ inst[i].name = inst0[i].name
          /\ inst[i].kind = inst0[i].kind
          /\ inst[i].type = inst0[i].type

C10_Claim ==
    cast_out = "returned" =>
        /\ SameInstance
        /\ \A i \in 1..Len(inst0) :
              IF inst0[i].kind \in {"DATA", "COORD"}
              THEN inst[i].value = [type |-> inst0[i].type, raw |-> inst0[i].value.raw]
              ELSE inst[i].value = inst0[i].value

(***************************************************************************)
(* C10 as amended: when cast_fields returns, it returns the same instance; *)
(* every DATA, COORD and NAME field has been replaced by its field type    *)
(* applied to its value, and only the ATTR fields keep the value they had. *)
(***************************************************************************)
C10_Amended ==
    cast_out = "returned" =>
        /\ SameInstance
        /\ \A i \in 1..Len(inst0) :
              IF inst0[i].kind \in {"DATA", "COORD", "NAME"}
              THEN inst[i].value = [type |-> inst0[i].type, raw |-> inst0[i].value.raw]
              ELSE inst[i].value = inst0[i].value

\* a returned instance whose NAME field was replaced and whose ATTR field was kept
C10_Witness ==
    /\ cast_out = "returned"
    /\ \E i \in 1..Len(inst0) :
          inst0[i].kind = "NAME" /\ inst[i].value # inst0[i].value
    /\ \E i \in 1..Len(inst0) :
          inst0[i].kind = "ATTR" /\ inst0[i].value.type # inst0[i].type

(***************************************************************************)
(* dataarray.py asdataarray.  The dataclass argument is [fields, factory]: *)
(* fields are the instance's fields [name, kind, value] in declaration     *)
(* order, and factory is the instance's __dataarray_factory__ attribute,   *)
(* "none" when it has none.  A value is [refused, raw]: raw is its content *)
(* and refused says that the array library does not take it (data that is  *)
(* no array, a coordinate whose shape neither fits nor broadcasts).        *)
(***************************************************************************)
AsmValues == [refused : BOOLEAN, raw : 1..MaxValue]

AsmFields ==
    [name : {"data"}, kind : {"DATA"}, value : AsmValues]
        \cup [name : {"name"}, kind : {"NAME"}, value : AsmValues]
        \cup [name : {"x", "y"}, kind : {"COORD", "ATTR"}, value : AsmValues]

Factories == {"none", "__dataarray_factory__"}

\* the fields of one kind, in declaration order
OfKind(fields, kind) == SelectSeq(fields, LAMBDA f : f.kind = kind)

\* DataModel.from_dataclass: the entries of each kind, in declaration order
from_dataclass(dataclass) ==
    [data |-> OfKind(dataclass.fields, "DATA"),
     coord |-> OfKind(dataclass.fields, "COORD"),
     attr |-> OfKind(dataclass.fields, "ATTR"),
     name |-> OfKind(dataclass.fields, "NAME")]

\* an entry called: the field's value; a coordinate is made for the array given
EntryRaises(entry) == entry.kind \in {"DATA", "COORD"} /\ entry.value.refused
EntryValue(entry) == entry.value
CoordNames(array) == [j \in 1..Len(array.coords) |-> array.coords[j].name]
CoordValue(entry, array) == [value |-> entry.value, against |-> CoordNames(array)]

\* lines 79-82: the instance's own factory replaces the argument
ResolveFactory(dataclass, factory) ==
    IF dataclass.factory # "none" THEN dataclass.factory ELSE factory

\* line 85: dataarray_factory(model.data[0](reference))
BaseArray(factory, entry) ==
    [factory |-> factory, data |-> EntryValue(entry), coords |-> <<>>,
     attrs |-> <<>>, name |-> <<>>]

\* line 88: dataarray.coords.update({coord.name: coord(dataarray)})
WithCoord(array, entry) ==
    [array EXCEPT !.coords =
        Append(@, [name |-> entry.name, value |-> CoordValue(entry, array)])]

\* line 91: dataarray.attrs.update({attr.name: attr()})
WithAttr(array, entry) ==
    [array EXCEPT !.attrs = Append(@, [name |-> entry.name, value |-> EntryValue(entry)])]

\* line 94: dataarray.name = name()
WithName(array, entry) == [array EXCEPT !.name = <<EntryValue(entry)>>]

\* variants of LoopOrder: the attributes first; no attribute and no name loop
LoopOrderAttrFirst == <<"attr", "coord", "name">>
LoopOrderCoordOnly == <<"coord">>

\* lines 87-94: the three loops, in the order of the function body
LoopOrder == <<"coord", "attr", "name">>

LoopAt(n) == IF n <= Len(LoopOrder) THEN LoopOrder[n] ELSE "return"
LoopAfter(loop) == LoopAt(1 + CHOOSE n \in 1..Len(LoopOrder) : LoopOrder[n] = loop)

InitAsm ==
    /\ \E names \in NameSeqs({"data", "name", "x", "y"}, MaxAsmFields),
          factory \in Factories :
          \E fields \in FieldsNamed(names, AsmFields) :
              dc = [fields |-> fields, factory |-> factory]
    /\ arg_factory \in {"xr.DataArray", "explicit"}
    /\ asm_pc = "call"
    /\ asm_i = 0
    /\ dataarray = <<>>
    /\ events = <<>>
    /\ returned = <<>>
    /\ IdleKind /\ IdleCheck /\ IdleCast /\ IdleMethods /\ IdleShort

\* lines 79-85: resolve the factory, build the model, make the base array
MakeBase ==
    /\ asm_pc = "call"
    /\ LET model == from_dataclass(dc)
       IN  /\ Len(model.data) >= 1
           /\ ~EntryRaises(model.data[1])
           /\ dataarray' = <<BaseArray(ResolveFactory(dc, arg_factory), model.data[1])>>
           /\ events' = Append(events, <<"factory", ResolveFactory(dc, arg_factory)>>)
    /\ asm_pc' = LoopAt(1)
    /\ asm_i' = 0
    /\ UNCHANGED <<dc, arg_factory, returned, notAsm>>

\* lines 84-85 raising: no data entry (IndexError), or data the library refuses
MakeBaseRaises ==
    /\ asm_pc = "call"
    /\ LET model == from_dataclass(dc)
       IN  \/ Len(model.data) = 0
           \/ /\ Len(model.data) >= 1
              /\ EntryRaises(model.data[1])
    /\ asm_pc' = "raised"
    /\ UNCHANGED <<dc, arg_factory, asm_i, dataarray, events, returned, notAsm>>

\* one iteration of a loop of lines 87-94, or the loop's end: the program
\* counter, the index, the array and the events after it
LoopStep(loop, entries, array) ==
    IF asm_i < Len(entries)
    THEN IF EntryRaises(entries[asm_i + 1])
         THEN [pc |-> "raised", i |-> asm_i, array |-> dataarray, events |-> events]
         ELSE [pc |-> loop, i |-> asm_i + 1, array |-> <<array>>,
               events |-> Append(events, <<loop, entries[asm_i + 1].name>>)]
    ELSE [pc |-> LoopAfter(loop), i |-> 0, array |-> dataarray, events |-> events]

\* lines 87-88: for coord in model.coord
CoordLoop ==
    /\ asm_pc = "coord"
    /\ LET entries == from_dataclass(dc).coord
           step == LoopStep("coord", entries,
                            IF asm_i < Len(entries)
                            THEN WithCoord(dataarray[1], entries[asm_i + 1])
                            ELSE dataarray[1])
       IN  /\ asm_pc' = step.pc
           /\ asm_i' = step.i
           /\ dataarray' = step.array
           /\ events' = step.events
    /\ UNCHANGED <<dc, arg_factory, returned, notAsm>>

\* lines 90-91: for attr in model.attr
AttrLoop ==
    /\ asm_pc = "attr"
    /\ LET entries == from_dataclass(dc).attr
           step == LoopStep("attr", entries,
                            IF asm_i < Len(entries)
                            THEN WithAttr(dataarray[1], entries[asm_i + 1])
                            ELSE dataarray[1])
       IN  /\ asm_pc' = step.pc
           /\ asm_i' = step.i
           /\ dataarray' = step.array
           /\ events' = step.events
    /\ UNCHANGED <<dc, arg_factory, returned, notAsm>>

\* lines 93-94: for name in model.name
NameLoop ==
    /\ asm_pc = "name"
    /\ LET entries == from_dataclass(dc).name
           step == LoopStep("name", entries,
                            IF asm_i < Len(entries)
                            THEN WithName(dataarray[1], entries[asm_i + 1])
                            ELSE dataarray[1])
       IN  /\ asm_pc' = step.pc
           /\ asm_i' = step.i
           /\ dataarray' = step.array
           /\ events' = step.events
    /\ UNCHANGED <<dc, arg_factory, returned, notAsm>>

\* line 96: return dataarray
Return ==
    /\ asm_pc = "return"
    /\ returned' = dataarray
    /\ asm_pc' = "returned"
    /\ UNCHANGED <<dc, arg_factory, asm_i, dataarray, events, notAsm>>

NextAsm == MakeBase \/ MakeBaseRaises \/ CoordLoop \/ AttrLoop \/ NameLoop \/ Return

SpecAsm == InitAsm /\ [][NextAsm]_vars

(***************************************************************************)
(* C5: asdataarray makes the base array from the DATA entry, then attaches *)
(* one coordinate per COORD field in declaration order under the field's   *)
(* name, each computed against the array as built so far, then one         *)
(* attribute per ATTR field in declaration order with the value unchanged, *)
(* then sets the name from the NAME field if there is one, and returns     *)
(* that array; no coordinate is attached after an attribute and no         *)
(* attribute after the name.                                               *)
(***************************************************************************)
DeclaredOf(kind) == SelectSeq(dc.fields, LAMBDA f : f.kind = kind)

ExpectedEvents ==
    [j \in 1..Len(DeclaredOf("COORD")) |-> <<"coord", DeclaredOf("COORD")[j].name>>]
        \o [j \in 1..Len(DeclaredOf("ATTR")) |-> <<"attr", DeclaredOf("ATTR")[j].name>>]
        \o [j \in 1..Len(DeclaredOf("NAME")) |-> <<"name", DeclaredOf("NAME")[j].name>>]

Rank(op) == CASE op = "factory" -> 0 [] op = "coord" -> 1 [] op = "attr" -> 2 [] OTHER -> 3

C5_Order ==
    /\ \A i, j \in 1..Len(events) : i < j => Rank(events[i][1]) <= Rank(events[j][1])
    /\ asm_pc = "returned" =>
          /\ Len(events) >= 1
          /\ events[1][1] = "factory"
          /\ Tail(events) = ExpectedEvents
          /\ returned = dataarray
          /\ returned[1].data = DeclaredOf("DATA")[1].value
          /\ returned[1].coords =
                [j \in 1..Len(DeclaredOf("COORD")) |->
                    [name |-> DeclaredOf("COORD")[j].name,
                     value |-> [value |-> DeclaredOf("COORD")[j].value,
                                against |-> [k \in 1..(j - 1) |->
                                                DeclaredOf("COORD")[k].name]]]]
          /\ returned[1].attrs =
                [j \in 1..Len(DeclaredOf("ATTR")) |->
                    [name |-> DeclaredOf("ATTR")[j].name,
                     value |-> DeclaredOf("ATTR")[j].value]]
          /\ returned[1].name =
                [j \in 1..Len(DeclaredOf("NAME")) |-> DeclaredOf("NAME")[j].value]

\* a returned array of a class that declares an attribute before a coordinate,
\* and a name before both
C5_Witness ==
    /\ asm_pc = "returned"
    /\ dc.fields[1].kind = "NAME"
    /\ \E i, j \in 1..Len(dc.fields) :
          i < j /\ dc.fields[i].kind = "ATTR" /\ dc.fields[j].kind = "COORD"

(***************************************************************************)
(* C6: a call of asdataarray calls the factory once and either returns the *)
(* array with every coordinate, every attribute and the name on it, or     *)
(* raises and returns nothing: the caller never receives a half-built      *)
(* array.                                                                  *)
(***************************************************************************)
FactoryCalls == Len(SelectSeq(events, LAMBDA e : e[1] = "factory"))

DeclaredFields == {dc.fields[i] : i \in 1..Len(dc.fields)}

Names(entries) == {entries[j].name : j \in 1..Len(entries)}

FullyPopulated(array) ==
    /\ Names(array.coords) = {f.name : f \in {g \in DeclaredFields : g.kind = "COORD"}}
    /\ Len(array.coords) = Cardinality(Names(array.coords))
    /\ Names(array.attrs) = {f.name : f \in {g \in DeclaredFields : g.kind = "ATTR"}}
    /\ Len(array.attrs) = Cardinality(Names(array.attrs))
    /\ Len(array.name) = Cardinality({g \in DeclaredFields : g.kind = "NAME"})

C6_AllOrNothing ==
    /\ FactoryCalls <= 1
    /\ asm_pc # "returned" => returned = <<>>
    /\ asm_pc = "returned" =>
          /\ FactoryCalls = 1
          /\ Len(returned) = 1
          /\ FullyPopulated(returned[1])

\* a call that raised in a loop, after the array was made and partly filled
C6_Witness ==
    /\ asm_pc = "raised"
    /\ Len(dataarray) = 1
    /\ Len(dataarray[1].coords) >= 1
    /\ returned = <<>>

(***************************************************************************)
(* C9: a factory passed as the dataarray_factory argument is the factory   *)
(* that makes the base array, also for an instance whose class defines     *)
(* __dataarray_factory__.                                                  *)
(***************************************************************************)
C9_Claim ==
    (asm_pc = "returned" /\ arg_factory = "explicit") =>
        returned[1].factory = "explicit"

(***************************************************************************)
(* methods.py.  A buffer is what numpy allocates: [shape, dtype, order,    *)
(* fill].  A call's outcome is [raised, value]: raised names the exception *)
(* ("none" for a return) and value is <<>> or <<the array returned>>.      *)
(***************************************************************************)
Shapes == {<<2>>, <<2, 3>>}
Dtypes == {"None", "int"}
Orders == {"C", "F"}
ArrayNames == {"None", "image"}
ArrayAttrs == {"None", "attrs"}
FillValues == {"7", "nan"}

\* the element type numpy gives a buffer: dtype=None means float64
ElementType(dtype) == IF dtype = "None" THEN "float64" ELSE dtype

\* np.empty / np.zeros / np.ones / np.full (shape, [fill_value,] dtype, order)
np_alloc(fill, shape, dtype, order) ==
    [shape |-> shape, dtype |-> ElementType(dtype), order |-> order, fill |-> fill]

\* lines 18-24: new(data, *, name=None, attrs=None), called with the positional
\* arguments args and the keywords name and attrs.  name and attrs are
\* keyword-only: more than one positional argument is a TypeError.
new(args, name, attrs) ==
    IF Len(args) # 1
    THEN [raised |-> "TypeError", value |-> <<>>]
    ELSE [raised |-> "none",
          value |-> <<[data |-> args[1], name |-> name, attrs |-> attrs]>>]

\* lines 27-35: return new(np.empty(shape, dtype, order), name, attrs)
empty(shape, dtype, order, name, attrs) ==
    new(<<np_alloc("uninitialized", shape, dtype, order), name, attrs>>, "None", "None")

\* lines 38-46
zeros(shape, dtype, order, name, attrs) ==
    new(<<np_alloc("0", shape, dtype, order), name, attrs>>, "None", "None")

\* lines 49-57
ones(shape, dtype, order, name, attrs) ==
    new(<<np_alloc("1", shape, dtype, order), name, attrs>>, "None", "None")

\* lines 60-69
full(shape, fill_value, dtype, order, name, attrs) ==
    new(<<np_alloc(fill_value, shape, dtype, order), name, attrs>>, "None", "None")

InitMethods ==
    /\ m_call = <<>>
    /\ m_result = <<>>
    /\ IdleKind /\ IdleCheck /\ IdleCast /\ IdleAsm /\ IdleShort

\* the call as the caller made it
Called(fn, shape, fill, dtype, order, name, attrs) ==
    <<[fn |-> fn, shape |-> shape, fill |-> fill, dtype |-> dtype,
       order |-> order, name |-> name, attrs |-> attrs]>>

\* a caller's new(data, name=name, attrs=attrs) on a buffer of its own
New ==
    /\ m_call = <<>>
    /\ \E shape \in Shapes, dtype \in Dtypes, order \in Orders,
          name \in ArrayNames, attrs \in ArrayAttrs :
          /\ m_call' = Called("new", shape, "caller", dtype, order, name, attrs)
          /\ m_result' = <<new(<<np_alloc("caller", shape, dtype, order)>>, name, attrs)>>
    /\ UNCHANGED notMethods

Empty ==
    /\ m_call = <<>>
    /\ \E shape \in Shapes, dtype \in Dtypes, order \in Orders,
          name \in ArrayNames, attrs \in ArrayAttrs :
          /\ m_call' = Called("empty", shape, "uninitialized", dtype, order, name, attrs)
          /\ m_result' = <<empty(shape, dtype, order, name, attrs)>>
    /\ UNCHANGED notMethods

Zeros ==
    /\ m_call = <<>>
    /\ \E shape \in Shapes, dtype \in Dtypes, order \in Orders,
          name \in ArrayNames, attrs \in ArrayAttrs :
          /\ m_call' = Called("zeros", shape, "0", dtype, order, name, attrs)
          /\ m_result' = <<zeros(shape, dtype, order, name, attrs)>>
    /\ UNCHANGED notMethods

Ones ==
    /\ m_call = <<>>
    /\ \E shape \in Shapes, dtype \in Dtypes, order \in Orders,
          name \in ArrayNames, attrs \in ArrayAttrs :
          /\ m_call' = Called("ones", shape, "1", dtype, order, name, attrs)
          /\ m_result' = <<ones(shape, dtype, order, name, attrs)>>
    /\ UNCHANGED notMethods

Full ==
    /\ m_call = <<>>
    /\ \E shape \in Shapes, dtype \in Dtypes, order \in Orders,
          name \in ArrayNames, attrs \in ArrayAttrs, fill_value \in FillValues :
          /\ m_call' = Called("full", shape, fill_value, dtype, order, name, attrs)
          /\ m_result' = <<full(shape, fill_value, dtype, order, name, attrs)>>
    /\ UNCHANGED notMethods

NextMethods == New \/ Empty \/ Zeros \/ Ones \/ Full

SpecMethods == InitMethods /\ [][NextMethods]_vars

(***************************************************************************)
(* C7: for every shape, dtype, order, name and attrs (and fill_value for   *)
(* full), the constructors empty, zeros, ones and full of methods.py       *)
(* return the array that new() builds from a buffer of that shape, dtype   *)
(* and order, carrying the name and the attrs; no such call ends in an     *)
(* error.                                                                  *)
(***************************************************************************)
C7_Claim ==
    (m_call # <<>> /\ m_call[1].fn \in {"empty", "zeros", "ones", "full"}) =>
        /\ m_result[1].raised = "none"
        /\ Len(m_result[1].value) = 1
        /\ m_result[1].value[1].data.shape = m_call[1].shape
        /\ m_result[1].value[1].data.order = m_call[1].order
        /\ m_result[1].value[1].data.dtype =
              (IF m_call[1].dtype = "None" THEN "float64" ELSE m_call[1].dtype)
        /\ m_result[1].value[1].name = m_call[1].name
        /\ m_result[1].value[1].attrs = m_call[1].attrs

(***************************************************************************)
(* dataarray.py asdataarray as one call: the outcome [raised, value].      *)
(***************************************************************************)
RECURSIVE RunLoop(_, _, _, _)
RunLoop(loop, entries, j, array) ==
    IF j > Len(entries) THEN array
    ELSE RunLoop(loop, entries, j + 1,
                 CASE loop = "coord" -> WithCoord(array, entries[j])
                   [] loop = "attr" -> WithAttr(array, entries[j])
                   [] OTHER -> WithName(array, entries[j]))

RECURSIVE RunLoops(_, _, _)
RunLoops(model, n, array) ==
    IF LoopAt(n) = "return" THEN array
    ELSE RunLoops(model, n + 1,
                  RunLoop(LoopAt(n),
                          CASE LoopAt(n) = "coord" -> model.coord
                            [] LoopAt(n) = "attr" -> model.attr
                            [] OTHER -> model.name,
                          1, array))

asdataarray(dataclass, dataarray_factory) ==
    LET model == from_dataclass(dataclass)
    IN  IF Len(model.data) = 0 THEN [raised |-> "IndexError", value |-> <<>>]
        ELSE IF EntryRaises(model.data[1])
                \/ \E j \in 1..Len(model.coord) : EntryRaises(model.coord[j])
        THEN [raised |-> "ValueError", value |-> <<>>]
        ELSE [raised |-> "none",
              value |-> <<RunLoops(model, 1,
                                   BaseArray(ResolveFactory(dataclass, dataarray_factory),
                                             model.data[1]))>>]

\* the steps of SpecAsm end where the one call ends
AsmAgrees ==
    /\ asm_pc = "returned" => returned = asdataarray(dc, arg_factory).value
    /\ asm_pc = "raised" => asdataarray(dc, arg_factory).raised # "none"

(***************************************************************************)
(* dataarray.py AsDataArray.empty, zeros, ones and full.  A class is the   *)
(* sequence of its field declarations [name, kind, default]: default is    *)
(* <<>> for a field without one.  The caller's **kwargs are [x, name,      *)
(* dtype], each <<>> when the keyword is not given.                        *)
(***************************************************************************)
ShortNames ==
    {<<"data">>, <<"data", "x">>, <<"data", "dtype">>, <<"data", "x", "name">>,
     <<"data", "x", "dtype">>, <<"x", "data", "name", "dtype">>}

Given == [refused |-> FALSE, raw |-> 1]

ShortDecls ==
    [name : {"data"}, kind : {"DATA"}, default : {<<>>}]
        \cup [name : {"x"}, kind : {"COORD"}, default : {<<>>, <<Given>>}]
        \cup [name : {"name"}, kind : {"NAME"}, default : {<<>>, <<Given>>}]
        \cup [name : {"dtype"}, kind : {"ATTR"}, default : {<<>>, <<Given>>}]

Kwargs ==
    [x : {<<>>} \cup {<<v>> : v \in AsmValues},
     name : {<<>>, <<Given>>},
     dtype : {<<>>, <<[refused |-> FALSE, raw |-> "int"]>>}]

\* a variant of Keywords that drops the caller's keywords
KeywordsDataOnly(name, data, kwargs) ==
    <<[name |-> name, value |-> [refused |-> FALSE, raw |-> data]]>>

\* **{name: data}, **kwargs: the keywords handed to cls(...), in order
Keywords(name, data, kwargs) ==
    <<[name |-> name, value |-> [refused |-> FALSE, raw |-> data]]>>
        \o (IF kwargs.x = <<>> THEN <<>> ELSE <<[name |-> "x", value |-> kwargs.x[1]]>>)
        \o (IF kwargs.name = <<>> THEN <<>>
            ELSE <<[name |-> "name", value |-> kwargs.name[1]]>>)
        \o (IF kwargs.dtype = <<>> THEN <<>>
            ELSE <<[name |-> "dtype", value |-> kwargs.dtype[1]]>>)

KeywordOf(keywords, name) ==
    SelectSeq(keywords, LAMBDA k : k.name = name)

\* cls(**keywords), the dataclass __init__: a keyword that names no field and a
\* field without default and without keyword are TypeErrors
Construct(decls, keywords) ==
    IF \/ \E k \in 1..Len(keywords) :
             \A i \in 1..Len(decls) : decls[i].name # keywords[k].name
       \/ \E i \in 1..Len(decls) :
             decls[i].default = <<>> /\ KeywordOf(keywords, decls[i].name) = <<>>
    THEN [raised |-> "TypeError", fields |-> <<>>]
    ELSE [raised |-> "none",
          fields |-> [i \in 1..Len(decls) |->
                        [name |-> decls[i].name,
                         kind |-> decls[i].kind,
                         value |-> IF KeywordOf(keywords, decls[i].name) # <<>>
                                   THEN KeywordOf(keywords, decls[i].name)[1].value
                                   ELSE decls[i].default[1]]]]

\* lines 134-136 (157-159, 180-182, 205-207): the body the four methods share,
\* on the buffer numpy allocated
Shorthand(decls, data, kwargs) ==
    LET name == OfKind(decls, "DATA")[1].name
        keywords == Keywords(name, data, kwargs)
        made == Construct(decls, keywords)
        out == IF made.raised # "none"
               THEN [raised |-> made.raised, value |-> <<>>]
               ELSE asdataarray([fields |-> made.fields,
                                 factory |-> "__dataarray_factory__"], "xr.DataArray")
    IN  [raised |-> out.raised, value |-> out.value, buffer |-> data,
         keywords |-> keywords, made |-> made.fields]

InitShort ==
    /\ k_call = <<>>
    /\ k_result = <<>>
    /\ IdleKind /\ IdleCheck /\ IdleCast /\ IdleAsm /\ IdleMethods

ShortCalled(fn, decls, shape, fill, order, kwargs) ==
    <<[fn |-> fn, decls |-> decls, shape |-> shape, fill |-> fill, order |-> order,
       kwargs |-> kwargs]>>

\* lines 115-136: data = np.empty(shape, order=order)
ShortEmpty ==
    /\ k_call = <<>>
    /\ \E names \in ShortNames, shape \in Shapes, order \in Orders, kwargs \in Kwargs :
          \E decls \in FieldsNamed(names, ShortDecls) :
              /\ k_call' = ShortCalled("empty", decls, shape, "uninitialized", order, kwargs)
              /\ k_result' = <<Shorthand(decls,
                                 np_alloc("uninitialized", shape, "None", order), kwargs)>>
    /\ UNCHANGED notShort

\* lines 138-159: data = np.zeros(shape, order=order)
ShortZeros ==
    /\ k_call = <<>>
    /\ \E names \in ShortNames, shape \in Shapes, order \in Orders, kwargs \in Kwargs :
          \E decls \in FieldsNamed(names, ShortDecls) :
              /\ k_call' = ShortCalled("zeros", decls, shape, "0", order, kwargs)
              /\ k_result' = <<Shorthand(decls, np_alloc("0", shape, "None", order), kwargs)>>
    /\ UNCHANGED notShort

\* lines 161-182: data = np.ones(shape, order=order)
ShortOnes ==
    /\ k_call = <<>>
    /\ \E names \in ShortNames, shape \in Shapes, order \in Orders, kwargs \in Kwargs :
          \E decls \in FieldsNamed(names, ShortDecls) :
              /\ k_call' = ShortCalled("ones", decls, shape, "1", order, kwargs)
              /\ k_result' = <<Shorthand(decls, np_alloc("1", shape, "None", order), kwargs)>>
    /\ UNCHANGED notShort

\* lines 184-207: data = np.full(shape, fill_value, order=order)
ShortFull ==
    /\ k_call = <<>>
    /\ \E names \in ShortNames, shape \in Shapes, order \in Orders, kwargs \in Kwargs,
          fill_value \in FillValues :
          \E decls \in FieldsNamed(names, ShortDecls) :
              /\ k_call' = ShortCalled("full", decls, shape, fill_value, order, kwargs)
              /\ k_result' = <<Shorthand(decls,
                                 np_alloc(fill_value, shape, "None", order), kwargs)>>
    /\ UNCHANGED notShort

NextShort == ShortEmpty \/ ShortZeros \/ ShortOnes \/ ShortFull

SpecShort == InitShort /\ [][NextShort]_vars

KwNames == {"x", "name", "dtype"}

DeclNames(decls) == {decls[i].name : i \in 1..Len(decls)}

Accepted(call) ==
    /\ \A key \in KwNames : call.kwargs[key] # <<>> => key \in DeclNames(call.decls)
    /\ \A i \in 1..Len(call.decls) :
          (call.decls[i].name # "data" /\ call.decls[i].default = <<>>)
              => call.kwargs[call.decls[i].name] # <<>>

ExpectedInstance(call, buffer) ==
    [i \in 1..Len(call.decls) |->
        [name |-> call.decls[i].name,
         kind |-> call.decls[i].kind,
         value |-> IF call.decls[i].name = "data"
                   THEN [refused |-> FALSE, raw |-> buffer]
                   ELSE IF call.kwargs[call.decls[i].name] # <<>>
                   THEN call.kwargs[call.decls[i].name][1]
                   ELSE call.decls[i].default[1]]]

====
